---- MODULE Spec2Model ----
(***************************************************************************)
(* Clinical-Daily: the article acquisition / normalization pipeline        *)
(* (services/geminiService.ts, kept as src/unnamed/part_000), the App      *)
(* component's state and handlers (src/App.tsx) and the per-card           *)
(* summarization state (src/components/ArticleCard.tsx).                   *)
(*                                                                         *)
(* JavaScript strings are sequences of one-character strings, so that      *)
(* includes, trim, toLowerCase, toUpperCase, length and localeCompare are  *)
(* computed character by character.  A missing element and an element with *)
(* empty text are both the empty sequence: every read in the source has    *)
(* the shape `el?.textContent || fallback`, which cannot tell them apart.  *)
(***************************************************************************)
EXTENDS Naturals, Integers, Sequences, FiniteSets, Bags, TLC

\* ------------------------------------------------------------------ bounds

\* Fetch cycles started in one run of the application.
MaxFetches == 2

\* Summarization requests in flight at one time.
MaxRequests == 2

\* Records in the document handed to the normalizer on its own.
MaxDocLen == 2

\* Names in the publication-type list handed to the query construction on its own.
MaxTypes == 3

\* Articles of the set handed to the filter and sort on their own.
MaxArticles == 3

\* ----------------------------------------------------------------- strings

Absent == <<>>

UpperChars == <<"A","B","C","D","E","F","G","H","I","J","K","L","M","N","O","P","Q","R","S","T","U","V","W","X","Y","Z">>

LowerChars == <<"a","b","c","d","e","f","g","h","i","j","k","l","m","n","o","p","q","r","s","t","u","v","w","x","y","z">>

DigitChars == <<"0","1","2","3","4","5","6","7","8","9">>

WhiteChars == {" ", "\n"}

\* Position of character c in the sequence s, 0 when it does not occur.
IndexOf(c, s) == IF \E i \in 1..Len(s) : s[i] = c
                 THEN CHOOSE i \in 1..Len(s) : s[i] = c
                 ELSE 0

\* The characters that occur in this model.
OtherChars == {" ", "\n", "-", ".", "/", ":"}

Chars == {UpperChars[i] : i \in 1..26} \cup {LowerChars[i] : i \in 1..26}
         \cup {DigitChars[i] : i \in 1..10} \cup OtherChars

LowerTable == [c \in Chars |-> IF IndexOf(c, UpperChars) > 0 THEN LowerChars[IndexOf(c, UpperChars)] ELSE c]

UpperTable == [c \in Chars |-> IF IndexOf(c, LowerChars) > 0 THEN UpperChars[IndexOf(c, LowerChars)] ELSE c]

LowerChar(c) == LowerTable[c]

UpperChar(c) == UpperTable[c]

\* String.prototype.toLowerCase / toUpperCase
ToLowerCase(s) == [i \in 1..Len(s) |-> LowerChar(s[i])]

ToUpperCase(s) == [i \in 1..Len(s) |-> UpperChar(s[i])]

\* String.prototype.includes
Includes(s, sub) == \E i \in 0..(Len(s) - Len(sub)) : SubSeq(s, i + 1, i + Len(sub)) = sub

\* String.prototype.trim
RECURSIVE TrimLeft(_)
TrimLeft(s) == IF s # <<>> /\ Head(s) \in WhiteChars THEN TrimLeft(Tail(s)) ELSE s

RECURSIVE TrimRight(_)
TrimRight(s) == IF s # <<>> /\ s[Len(s)] \in WhiteChars THEN TrimRight(SubSeq(s, 1, Len(s) - 1)) ELSE s

Trim(s) == TrimRight(TrimLeft(s))

\* Array.prototype.join
RECURSIVE Join(_, _)
Join(parts, sep) == IF parts = <<>> THEN <<>>
                    ELSE IF Len(parts) = 1 THEN parts[1]
                    ELSE parts[1] \o sep \o Join(Tail(parts), sep)

\* !isNaN(Number(s)) for a one-character string s: a digit converts to itself and a
\* white-space character converts to 0; every other single character converts to NaN.
IsNumberChar(c) == IndexOf(c, DigitChars) > 0 \/ c \in WhiteChars

\* -------------------------------------------------------------- vocabulary

\* enum JournalName
NEJM == <<"N","E","J","M">>

JAMA == <<"J","A","M","A">>

LANCET == <<"T","h","e"," ","L","a","n","c","e","t">>

BMJ == <<"B","M","J">>

NATURE_MED == <<"N","a","t","u","r","e"," ","M","e","d","i","c","i","n","e">>

ANNALS == <<"A","n","n","a","l","s"," ","o","f"," ","I","n","t","e","r","n","a","l"," ","M","e","d","i","c","i","n","e">>

JCO == <<"J","o","u","r","n","a","l"," ","o","f"," ","C","l","i","n","i","c","a","l"," ","O","n","c","o","l","o","g","y">>

ALL_JOURNALS == <<NEJM, JAMA, LANCET, BMJ, NATURE_MED, ANNALS, JCO>>

\* enum PublicationType
ALL_PUBLICATION_TYPES == <<"Clinical Trial", "Randomized Controlled Trial", "Meta-Analysis", "Systematic Review">>

\* DATE_RANGES, the values of the three radio options
DATE_RANGES == {7, 14, 30}

\* Object.values(JOURNAL_QUERY_MAP)
JOURNAL_QUERY_MAP == << "\"N Engl J Med\"[Journal]", "\"JAMA\"[Journal]", "\"Lancet\"[Journal]",
                        "\"BMJ\"[Journal]", "\"Nat Med\"[Journal]", "\"Ann Intern Med\"[Journal]",
                        "\"J Clin Oncol\"[Journal]" >>

\* PUB_TYPE_QUERY_MAP[t] || "": the empty string for a name that is no key of the map.
PUB_TYPE_QUERY_MAP(t) ==
    CASE t = "Clinical Trial" -> "\"Clinical Trial\"[Publication Type]"
      [] t = "Randomized Controlled Trial" -> "\"Randomized Controlled Trial\"[Publication Type]"
      [] t = "Meta-Analysis" -> "\"Meta-Analysis\"[Publication Type]"
      [] t = "Systematic Review" -> "\"Systematic Review\"[Publication Type]"
      [] OTHER -> ""

\* The search term of fetchLatestArticles, kept as its three clauses: the journal
\* disjunction, the day count of the date clause and the publication-type disjunction.
NonEmptyToken(q) == q # ""

BuildTerm(days, pubTypes) ==
    LET typesToUse == IF Len(pubTypes) > 0 THEN pubTypes ELSE ALL_PUBLICATION_TYPES
        typeQueries == SelectSeq([i \in 1..Len(typesToUse) |-> PUB_TYPE_QUERY_MAP(typesToUse[i])], NonEmptyToken)
    IN  [journalTerms |-> JOURNAL_QUERY_MAP, days |-> days, typeQueries |-> typeQueries]

\* ------------------------------------------------------------- normalizer

Untitled == <<"U","n","t","i","t","l","e","d">>

NoAbstract == <<"N","o"," ","a","b","s","t","r","a","c","t"," ","a","v","a","i","l","a","b","l","e",".">>

UnknownAuthors == <<"U","n","k","n","o","w","n"," ","A","u","t","h","o","r","s">>

EtAl == <<"e","t"," ","a","l",".">>

DoiPrefix == <<"h","t","t","p","s",":","/","/","d","o","i",".","o","r","g","/">>

PubmedPrefix == <<"h","t","t","p","s",":","/","/","p","u","b","m","e","d",".","n","c","b","i",".","n","l","m",".","n","i","h",".","g","o","v","/">>

Undefined == <<"u","n","d","e","f","i","n","e","d">>

\* new Date().getFullYear().toString()
CurrentYear == <<"2","0","2","6">>

NoSummary == "none"

\* One AbstractText element: null for empty trimmed text, else "LABEL: text" or text.
AbstractPart(el) ==
    LET text == Trim(el.text)
    IN  IF text = <<>> THEN <<>>
        ELSE IF el.label # <<>> THEN ToUpperCase(el.label) \o <<":", " ">> \o text
        ELSE text

NonEmptyStr(s) == s # <<>>

AbstractOf(abstractTexts) ==
    IF Len(abstractTexts) > 0
    THEN Join(SelectSeq([i \in 1..Len(abstractTexts) |-> AbstractPart(abstractTexts[i])], NonEmptyStr),
              <<"\n", "\n">>)
    ELSE NoAbstract

AuthorsOf(authorList) ==
    LET rendered == [i \in 1..Len(authorList) |-> authorList[i].last \o <<" ">> \o authorList[i].initials]
        authors == IF Len(authorList) > 3
                   THEN SubSeq(rendered, 1, 3) \o <<EtAl>>
                   ELSE rendered
    IN  IF Len(authors) > 0 THEN authors ELSE <<UnknownAuthors>>

\* Mutant: the "Oncology" pattern is tested before the others.
JournalOfOncologyFirst(journalTitleRaw) ==
    IF Includes(journalTitleRaw, <<"O","n","c","o","l","o","g","y">>) THEN JCO
    ELSE IF Includes(journalTitleRaw, <<"N","e","w"," ","E","n","g","l","a","n","d">>) THEN NEJM
    ELSE IF journalTitleRaw = <<"J","A","M","A">> THEN JAMA
    ELSE IF Includes(journalTitleRaw, <<"L","a","n","c","e","t">>) THEN LANCET
    ELSE IF journalTitleRaw = <<"B","M","J">> THEN BMJ
    ELSE IF Includes(journalTitleRaw, <<"N","a","t","u","r","e">>) THEN NATURE_MED
    ELSE IF Includes(journalTitleRaw, <<"A","n","n","a","l","s">>) THEN ANNALS
    ELSE journalTitleRaw

JournalOf(journalTitleRaw) ==
    IF Includes(journalTitleRaw, <<"N","e","w"," ","E","n","g","l","a","n","d">>) THEN NEJM
    ELSE IF journalTitleRaw = <<"J","A","M","A">> THEN JAMA
    ELSE IF Includes(journalTitleRaw, <<"L","a","n","c","e","t">>) THEN LANCET
    ELSE IF journalTitleRaw = <<"B","M","J">> THEN BMJ
    ELSE IF Includes(journalTitleRaw, <<"N","a","t","u","r","e">>) THEN NATURE_MED
    ELSE IF Includes(journalTitleRaw, <<"A","n","n","a","l","s">>) THEN ANNALS
    ELSE IF Includes(journalTitleRaw, <<"O","n","c","o","l","o","g","y">>) THEN JCO
    ELSE journalTitleRaw

\* A one-character numeric month or day gets a leading zero; anything else passes through.
PadField(v) == IF Len(v) = 1 /\ IsNumberChar(v[1]) THEN <<"0">> \o v ELSE v

PubDateOf(yearRaw, monthRaw, dayRaw) ==
    LET year == IF yearRaw # <<>> THEN yearRaw ELSE CurrentYear
        month == IF monthRaw # <<>> THEN monthRaw ELSE <<"0", "1">>
        day == IF dayRaw # <<>> THEN dayRaw ELSE <<"0", "1">>
    IN  year \o <<"-">> \o PadField(month) \o <<"-">> \o PadField(day)

DoiLinkOf(node) ==
    IF node.doi # <<>> THEN DoiPrefix \o node.doi
    ELSE PubmedPrefix \o (IF node.hasPmid THEN node.pmid ELSE Undefined) \o <<"/">>

TrialKeywords == { <<"c","l","i","n","i","c","a","l"," ","t","r","i","a","l">>,
                   <<"r","a","n","d","o","m","i","z","e","d"," ","c","o","n","t","r","o","l","l","e","d"," ","t","r","i","a","l">>,
                   <<"m","e","t","a","-","a","n","a","l","y","s","i","s">>,
                   <<"s","y","s","t","e","m","a","t","i","c"," ","r","e","v","i","e","w">> }

IsTrialOf(pubTypes) ==
    \E i \in 1..Len(pubTypes) : \E k \in TrialKeywords : Includes(ToLowerCase(pubTypes[i]), k)

\* The body of the loop over PubmedArticle nodes for a node that has an Article child.
NormalizeRecord(node, id) ==
    [ id |-> id,
      title |-> IF node.title # <<>> THEN node.title ELSE Untitled,
      journal |-> JournalOf(node.journalTitle),
      authors |-> AuthorsOf(node.authors),
      pubDate |-> PubDateOf(node.year, node.month, node.day),
      abstract |-> AbstractOf(node.abstractTexts),
      doiLink |-> DoiLinkOf(node),
      isTrial |-> IsTrialOf(node.pubTypes),
      cachedSummary |-> NoSummary ]

\* The loop: nodes without an Article child are skipped; each emitted article gets
\* a fresh identifier (crypto.randomUUID), here the pair of the fetch cycle's number
\* and the node's position.
RECURSIVE NormalizeFrom(_, _, _)
NormalizeFrom(nodes, seq, i) ==
    IF i > Len(nodes) THEN <<>>
    ELSE IF ~nodes[i].hasArticle THEN NormalizeFrom(nodes, seq, i + 1)
    ELSE <<NormalizeRecord(nodes[i], <<seq, i>>)>> \o NormalizeFrom(nodes, seq, i + 1)

\* Mutant: the identifiers are the same in every fetch cycle.
NormalizeDocumentReusingIds(nodes, seq) == NormalizeFrom(nodes, 1, 1)

NormalizeDocument(nodes, seq) == NormalizeFrom(nodes, seq, 1)

\* ------------------------------------------------------- filter and sort

\* Collation of String.prototype.localeCompare over the characters that occur here:
\* white space and punctuation sort before digits, digits before letters, and the
\* two cases of a letter differ only when everything else is equal (lower first).
CollationOrder == <<" ","-",".","/",":","0","1","2","3","4","5","6","7","8","9","a","b","c","d","e","f","g","h","i","j","k","l","m","n","o","p","q","r","s","t","u","v","w","x","y","z">>

PrimaryTable == [c \in Chars |-> IndexOf(LowerChar(c), CollationOrder)]

CaseTable == [c \in Chars |-> IF IndexOf(c, UpperChars) > 0 THEN 1 ELSE 0]

PrimaryKey(c) == PrimaryTable[c]

CaseKey(c) == CaseTable[c]

\* Lexicographic comparison of two sequences of numbers: -1, 0 or 1.
RECURSIVE CompareKeys(_, _)
CompareKeys(a, b) ==
    IF a = <<>> /\ b = <<>> THEN 0
    ELSE IF a = <<>> THEN -1
    ELSE IF b = <<>> THEN 1
    ELSE IF Head(a) < Head(b) THEN -1
    ELSE IF Head(a) > Head(b) THEN 1
    ELSE CompareKeys(Tail(a), Tail(b))

LocaleCompare(a, b) ==
    LET primary == CompareKeys([i \in 1..Len(a) |-> PrimaryKey(a[i])], [i \in 1..Len(b) |-> PrimaryKey(b[i])])
    IN  IF primary # 0 THEN primary
        ELSE CompareKeys([i \in 1..Len(a) |-> CaseKey(a[i])], [i \in 1..Len(b) |-> CaseKey(b[i])])

\* The comparator handed to result.sort
SortCompare(a, b, sort) ==
    IF sort = "newest" THEN LocaleCompare(b.pubDate, a.pubDate)
    ELSE LocaleCompare(a.pubDate, b.pubDate)

\* Mutant: x goes before the first element that need not precede it (not stable).
RECURSIVE InsertSortedUnstable(_, _, _)
InsertSortedUnstable(x, sorted, sort) ==
    IF sorted = <<>> THEN <<x>>
    ELSE IF SortCompare(Head(sorted), x, sort) >= 0 THEN <<x>> \o sorted
    ELSE <<Head(sorted)>> \o InsertSortedUnstable(x, Tail(sorted), sort)

\* Array.prototype.sort is stable: x goes before the first element that must follow it.
RECURSIVE InsertSorted(_, _, _)
InsertSorted(x, sorted, sort) ==
    IF sorted = <<>> THEN <<x>>
    ELSE IF SortCompare(Head(sorted), x, sort) > 0 THEN <<x>> \o sorted
    ELSE <<Head(sorted)>> \o InsertSorted(x, Tail(sorted), sort)

RECURSIVE SortArticles(_, _)
SortArticles(s, sort) ==
    IF s = <<>> THEN <<>>
    ELSE InsertSorted(s[Len(s)], SortArticles(SubSeq(s, 1, Len(s) - 1), sort), sort)

\* Mutant: the free-text test compares without lower-casing.
MatchesFilterCaseSensitive(article, journals, query) ==
    /\ article.journal \in journals
    /\ \/ Includes(article.title, query)
       \/ Includes(article.abstract, query)

MatchesFilter(article, journals, query) ==
    /\ article.journal \in journals
    /\ \/ Includes(ToLowerCase(article.title), ToLowerCase(query))
       \/ Includes(ToLowerCase(article.abstract), ToLowerCase(query))

\* processedArticles
ProcessedArticles(arts, journals, query, sort) ==
    LET Keep(a) == MatchesFilter(a, journals, query)
    IN  SortArticles(SelectSeq(arts, Keep), sort)

SeqToSet(s) == {s[i] : i \in 1..Len(s)}

\* --------------------------------------------------------- remote inputs

\* PubmedArticle nodes the bibliographic source can return.
TrialNode ==
    [ hasArticle |-> TRUE, title |-> <<"R","x">>,
      abstractTexts |-> << [label |-> Absent, text |-> <<"L","D","L">>] >>,
      authors |-> << [last |-> <<"R","o","e">>, initials |-> <<"J">>] >>,
      journalTitle |-> <<"J","A","M","A">>,
      year |-> <<"2","0","2","4">>, month |-> <<"3">>, day |-> <<"7">>,
      doi |-> <<"1","/","a">>, hasPmid |-> TRUE, pmid |-> <<"1","0","1">>,
      pubTypes |-> << <<"R","a","n","d","o","m","i","z","e","d"," ","C","o","n","t","r","o","l","l","e","d"," ","T","r","i","a","l">> >> ]

ReviewNode ==
    [ hasArticle |-> TRUE, title |-> <<"F","l","u">>,
      abstractTexts |-> << [label |-> <<"A","i","m">>, text |-> <<"R","e","s","t">>] >>,
      authors |-> << >>,
      journalTitle |-> <<"T","h","e"," ","L","a","n","c","e","t">>,
      year |-> <<"2","0","2","4">>, month |-> <<"1","1">>, day |-> Absent,
      doi |-> Absent, hasPmid |-> TRUE, pmid |-> <<"1","0","2">>,
      pubTypes |-> << <<"R","e","v","i","e","w">> >> ]

BookNode ==
    [ hasArticle |-> FALSE, title |-> Absent, abstractTexts |-> << >>, authors |-> << >>,
      journalTitle |-> Absent, year |-> Absent, month |-> Absent, day |-> Absent,
      doi |-> Absent, hasPmid |-> TRUE, pmid |-> <<"1","0","3">>, pubTypes |-> << >> ]

\* Documents of the bulk retrieval.
EFetchDocuments == { << >>, << TrialNode, BookNode, ReviewNode >> }

\* What the identifier search can answer: fetch() rejects (networkError), a
\* non-success status (notOk), a body json() cannot parse (badJson), a JSON value
\* without esearchresult.idlist (noIdlist), and a JSON value with an idlist.
SearchResponses ==
    { [kind |-> k, idlist |-> << >>] : k \in {"networkError", "notOk", "badJson", "noIdlist", "json"} }
    \cup { [kind |-> "json", idlist |-> <<"101", "102">>] }

\* What the bulk retrieval can answer: fetch() rejects, a non-success status (its
\* body is a document all the same), or a document.
EFetchResponses ==
    { [kind |-> "networkError", nodes |-> << >>] }
    \cup { [kind |-> "notOk", nodes |-> << TrialNode >>] }
    \cup { [kind |-> "ok", nodes |-> d] : d \in EFetchDocuments }

\* What the generative call can answer: the call rejects (as does a missing API
\* key, thrown before the call), the response has no text, or the text is JSON.
Summaries == {"s1", "s2"}

SummaryResponses ==
    { [kind |-> k, summary |-> NoSummary] : k \in {"rejected", "emptyText"} }
    \cup { [kind |-> "json", summary |-> s] : s \in Summaries }

\* Values the user can type, and the checkboxes the user toggles.
SearchTexts == { << >>, <<"F","L","U">> }

ToggledJournals == { JAMA }

\* The radio options the user picks.
PickedDateRanges == { 30 }

ToggledPubTypes == { "Meta-Analysis" }

SortOptions == {"newest", "oldest"}

\* ------------------------------------------------------------------ state

VARIABLES
    articles,            \* App: the article set
    selectedJournals,    \* App: selected journal names (no duplicates arise, so a set)
    selectedPubTypes,    \* App: selected publication types, in array order
    pubTypesIsDefault,   \* App: selectedPubTypes is the ALL_PUBLICATION_TYPES array itself
    dateRange,           \* App: recency window in days
    searchQuery,         \* App: free-text query
    sortBy,              \* App: sort direction
    isRefreshing,        \* App: the refreshing flag
    appMounted,          \* App: the mount effect has run
    fetches,             \* fetch cycles in flight
    nFetch,              \* fetch cycles started so far
    lastDone,            \* the fetch cycle that completed last: its number, its arguments, the
                         \* remote calls it issued, whether one failed, and what it handed back
    cards,               \* ArticleCard: loading and error of every mounted card, by article id
    requests,            \* summarization requests in flight, a bag
    rawIn,               \* normalizer on its own: the document handed to it
    normOut,             \* normalizer on its own: the articles it emitted
    termArgs,            \* query construction on its own: the arguments of fetchLatestArticles
    termOut              \* query construction on its own: the term it built

vars == << articles, selectedJournals, selectedPubTypes, pubTypesIsDefault, dateRange, searchQuery,
           sortBy, isRefreshing, appMounted, fetches, nFetch, lastDone, cards, requests,
           rawIn, normOut, termArgs, termOut >>

normVars == << rawIn, normOut, termArgs, termOut >>

\* No call of fetchLatestArticles on its own, and no term built yet.
NoArgs == [days |-> 14, pubTypes |-> << >>]

NoTerm == [journalTerms |-> << >>, days |-> 0, typeQueries |-> << >>]

fetchVars == << fetches, nFetch, isRefreshing >>

NoError == "null"

FailedMessage == "Failed to generate summary. Please try again."

\* useState(false), useState(null) of a card that mounts
FreshCard == [loading |-> FALSE, error |-> NoError]

NoFetchDone == [seq |-> 0, days |-> 0, pubTypes |-> << >>, calls |-> << >>, remoteFailed |-> FALSE,
                threw |-> FALSE, result |-> << >>]

\* The App component as constructed: the useState initial values, nothing in flight.
AppInit ==
    /\ articles = << >>
    /\ selectedJournals = SeqToSet(ALL_JOURNALS)
    /\ selectedPubTypes = ALL_PUBLICATION_TYPES
    /\ pubTypesIsDefault = TRUE
    /\ dateRange = 14
    /\ searchQuery = << >>
    /\ sortBy = "newest"
    /\ isRefreshing = FALSE
    /\ appMounted = FALSE
    /\ fetches = {}
    /\ nFetch = 0
    /\ lastDone = NoFetchDone
    /\ cards = << >>
    /\ requests = EmptyBag

Init ==
    /\ AppInit
    /\ rawIn = << >>
    /\ normOut = << >>
    /\ termArgs = NoArgs
    /\ termOut = NoTerm

\* ----------------------------------------------------------------- render

\* The cards React keeps after a render: one per article of processedArticles, keyed
\* by article id.  A card whose article is still displayed keeps its state, a card
\* whose article left the list is unmounted and its state is lost, and an article
\* that enters the list gets a fresh card.  A request started by an unmounted card
\* can no longer set that card's state.
DisplayedIds(arts, journals, query, sort) ==
    LET shown == ProcessedArticles(arts, journals, query, sort)
    IN  {shown[i].id : i \in 1..Len(shown)}

\* The requests reqs (a bag) once only the cards of ids are mounted.
Orphan(r, ids) == [r EXCEPT !.cardMounted = r.cardMounted /\ r.id \in ids]

Unmounted(reqs, ids) ==
    [ r \in {Orphan(x, ids) : x \in DOMAIN reqs} |->
        LET from == {x \in DOMAIN reqs : Orphan(x, ids) = r}
            RECURSIVE Count(_)
            Count(S) == IF S = {} THEN 0 ELSE LET x == CHOOSE y \in S : TRUE IN reqs[x] + Count(S \ {x})
        IN  Count(from) ]

Render(arts, journals, query, sort, c, reqs) ==
    LET ids == DisplayedIds(arts, journals, query, sort)
    IN  /\ cards' = [id \in ids |-> IF id \in DOMAIN c THEN c[id] ELSE FreshCard]
        /\ requests' = Unmounted(reqs, ids)

\* ------------------------------------------------------------ fetch cycle

\* handleFetchLive up to its await: setIsRefreshing(true), then fetchLatestArticles
\* builds the term and issues the identifier search.
StartFetch(days, pubTypes) ==
    /\ nFetch < MaxFetches
    /\ nFetch' = nFetch + 1
    /\ isRefreshing' = TRUE
    /\ fetches' = fetches \cup { [seq |-> nFetch + 1, days |-> days, pubTypes |-> pubTypes,
                                  term |-> BuildTerm(days, pubTypes), pc |-> "search",
                                  calls |-> << "esearch" >>, ids |-> << >>] }

\* The catch block of fetchLatestArticles: log and return [].
CatchBlock == [threw |-> FALSE, result |-> << >>]

Returned(list) == [threw |-> FALSE, result |-> list]

\* Lines 99-101: fetch() rejects, the status is not ok, or json() rejects.
SearchThrows(resp) == resp.kind \in {"networkError", "notOk", "badJson"}

\* searchData.esearchresult?.idlist: undefined when the path is missing.
IdListOf(resp) == IF resp.kind = "json" THEN resp.idlist ELSE << >>

\* Mutant: no early return on an empty identifier list.
NoIdsNever(ids) == FALSE

\* if (!ids || ids.length === 0) return [];
NoIds(ids) == Len(ids) = 0

\* Mutant: the status of the bulk retrieval is not looked at.
EFetchThrowsOnRejectOnly(resp) == resp.kind = "networkError"

\* Lines 110-111: fetch() rejects or the status is not ok.
EFetchThrows(resp) == resp.kind = "networkError" \/ resp.kind # "ok"

\* The resumption of handleFetchLive after its await: setArticles(liveArticles) unless
\* the call threw, and setIsRefreshing(false) either way.
\* Mutant: the returned list is merged into the article set.
ArticlesAfterFetchMerged(f, outcome) == IF outcome.threw THEN articles ELSE articles \o outcome.result

\* Mutant: the answer of a cycle issued before the one that completed last is dropped.
ArticlesAfterFetchLatestIssued(f, outcome) ==
    IF outcome.threw \/ f.seq < lastDone.seq THEN articles ELSE outcome.result

ArticlesAfterFetch(f, outcome) == IF outcome.threw THEN articles ELSE outcome.result

\* A remote call failed: the transport failed or the status was not a success, or
\* the body of the identifier search could not be parsed.
RemoteFailed(resp) == resp.kind \in {"networkError", "notOk", "badJson"}

CompleteFetch(f, outcome, resp) ==
    /\ articles' = ArticlesAfterFetch(f, outcome)
    /\ isRefreshing' = FALSE
    /\ fetches' = fetches \ {f}
    /\ lastDone' = [seq |-> f.seq, days |-> f.days, pubTypes |-> f.pubTypes, calls |-> f.calls,
                    remoteFailed |-> RemoteFailed(resp), threw |-> outcome.threw,
                    result |-> outcome.result]
    /\ Render(articles', selectedJournals, searchQuery, sortBy, cards, requests)
    /\ UNCHANGED << selectedJournals, selectedPubTypes, pubTypesIsDefault, dateRange, searchQuery,
                    sortBy, appMounted, nFetch, normVars >>

\* The identifier search answers.
SearchResponds(f, resp) ==
    /\ f \in fetches
    /\ f.pc = "search"
    /\ \/ /\ SearchThrows(resp)
          /\ CompleteFetch(f, CatchBlock, resp)
       \/ /\ ~SearchThrows(resp)
          /\ NoIds(IdListOf(resp))
          /\ CompleteFetch(f, Returned(<< >>), resp)
       \/ /\ ~SearchThrows(resp)
          /\ ~NoIds(IdListOf(resp))
          /\ fetches' = (fetches \ {f}) \cup {[f EXCEPT !.pc = "efetch", !.calls = Append(f.calls, "efetch"),
                                                               !.ids = IdListOf(resp)]}
          /\ UNCHANGED << articles, selectedJournals, selectedPubTypes, pubTypesIsDefault, dateRange,
                          searchQuery, sortBy, isRefreshing, appMounted, nFetch, lastDone, cards,
                          requests, normVars >>

\* The bulk retrieval answers.
EFetchResponds(f, resp) ==
    /\ f \in fetches
    /\ f.pc = "efetch"
    /\ \/ /\ EFetchThrows(resp)
          /\ CompleteFetch(f, CatchBlock, resp)
       \/ /\ ~EFetchThrows(resp)
          /\ CompleteFetch(f, Returned(NormalizeDocument(resp.nodes, f.seq)), resp)

\* ------------------------------------------------------------ App handlers

\* useEffect on mount
Mount ==
    /\ ~appMounted
    /\ appMounted' = TRUE
    /\ StartFetch(dateRange, selectedPubTypes)
    /\ UNCHANGED << articles, selectedJournals, selectedPubTypes, pubTypesIsDefault, dateRange,
                    searchQuery, sortBy, lastDone, cards, requests, normVars >>

\* A radio option other than the checked one: setDateRange, then the effect refetches.
SetDateRange(v) ==
    /\ appMounted
    /\ v # dateRange
    /\ dateRange' = v
    /\ StartFetch(v, selectedPubTypes)
    /\ UNCHANGED << articles, selectedJournals, selectedPubTypes, pubTypesIsDefault, searchQuery,
                    sortBy, appMounted, lastDone, cards, requests, normVars >>

NotType(t) == LET Keep(x) == x # t IN SelectSeq(selectedPubTypes, Keep)

\* togglePubType, then the effect refetches (the array is always a new one).
TogglePubType(t) ==
    /\ appMounted
    /\ selectedPubTypes' = IF t \in SeqToSet(selectedPubTypes) THEN NotType(t) ELSE Append(selectedPubTypes, t)
    /\ pubTypesIsDefault' = FALSE
    /\ StartFetch(dateRange, selectedPubTypes')
    /\ UNCHANGED << articles, selectedJournals, dateRange, searchQuery, sortBy, appMounted, lastDone,
                    cards, requests, normVars >>

\* The Refresh button, disabled while isRefreshing.
RefreshClick ==
    /\ appMounted
    /\ ~isRefreshing
    /\ StartFetch(dateRange, selectedPubTypes)
    /\ UNCHANGED << articles, selectedJournals, selectedPubTypes, pubTypesIsDefault, dateRange,
                    searchQuery, sortBy, appMounted, lastDone, cards, requests, normVars >>

\* Mutant: the refetch effect also depends on the view state.
ViewChangeRefetches(journals, query, sort) ==
    /\ appMounted
    /\ selectedJournals' = journals
    /\ searchQuery' = query
    /\ sortBy' = sort
    /\ Render(articles, journals, query, sort, cards, requests)
    /\ StartFetch(dateRange, selectedPubTypes)
    /\ UNCHANGED << articles, selectedPubTypes, pubTypesIsDefault, dateRange, appMounted,
                    lastDone, normVars >>

\* A change of view state alone: the list is recomputed and the cards re-rendered.
ViewChange(journals, query, sort) ==
    /\ appMounted
    /\ selectedJournals' = journals
    /\ searchQuery' = query
    /\ sortBy' = sort
    /\ Render(articles, journals, query, sort, cards, requests)
    /\ UNCHANGED << articles, selectedPubTypes, pubTypesIsDefault, dateRange, isRefreshing, appMounted,
                    fetches, nFetch, lastDone, normVars >>

ToggleJournal(j) ==
    ViewChange(IF j \in selectedJournals THEN selectedJournals \ {j} ELSE selectedJournals \cup {j},
               searchQuery, sortBy)

ToggleAllJournals ==
    ViewChange(IF Cardinality(selectedJournals) = Len(ALL_JOURNALS) THEN {} ELSE SeqToSet(ALL_JOURNALS),
               searchQuery, sortBy)

SetSearchQuery(q) == q # searchQuery /\ ViewChange(selectedJournals, q, sortBy)

SetSortBy(s) == s # sortBy /\ ViewChange(selectedJournals, searchQuery, s)

\* "Reset all filters", offered when the list is empty and the loading panel is not shown.
ResetFilters ==
    /\ appMounted
    /\ ~(isRefreshing /\ Len(articles) = 0)
    /\ Len(ProcessedArticles(articles, selectedJournals, searchQuery, sortBy)) = 0
    /\ searchQuery' = << >>
    /\ selectedJournals' = SeqToSet(ALL_JOURNALS)
    /\ dateRange' = 30
    /\ selectedPubTypes' = ALL_PUBLICATION_TYPES
    /\ pubTypesIsDefault' = TRUE
    /\ IF dateRange # 30 \/ ~pubTypesIsDefault
       THEN StartFetch(30, ALL_PUBLICATION_TYPES)
       ELSE UNCHANGED fetchVars
    /\ Render(articles, selectedJournals', searchQuery', sortBy, cards, requests)
    /\ UNCHANGED << articles, sortBy, appMounted, lastDone, normVars >>

\* Mutant: the summary is written to every article of the set.
HandleSummaryGeneratedForAll(id, summary) ==
    [i \in 1..Len(articles) |-> [articles[i] EXCEPT !.cachedSummary = summary]]

\* handleSummaryGenerated
HandleSummaryGenerated(id, summary) ==
    [i \in 1..Len(articles) |-> IF articles[i].id = id
                                THEN [articles[i] EXCEPT !.cachedSummary = summary]
                                ELSE articles[i]]

\* ----------------------------------------------------------- ArticleCard

ArticleById(id) == articles[CHOOSE i \in 1..Len(articles) : articles[i].id = id]

\* Mutant: the action area is rendered for every trial, summarized or not.
ActionAreaRenderedForTrial(article) == article.isTrial

\* {article.isTrial && !article.cachedSummary && (...)}
ActionAreaRendered(article) == article.isTrial /\ article.cachedSummary = NoSummary

\* if (article.cachedSummary) return;
ReturnsEarly(article) == article.cachedSummary # NoSummary

\* A click on the card's button (rendered, and not disabled by loading) that gets
\* past the early return: the request is issued.
SummarizeClick(id) ==
    /\ id \in DOMAIN cards
    /\ ActionAreaRendered(ArticleById(id))
    /\ ~cards[id].loading
    /\ ~ReturnsEarly(ArticleById(id))
    /\ BagCardinality(requests) < MaxRequests
    /\ cards' = [cards EXCEPT ![id] = [loading |-> TRUE, error |-> NoError]]
    /\ requests' = requests (+) SetToBag({ [id |-> id, abstract |-> ArticleById(id).abstract,
                                               cardMounted |-> TRUE] })
    /\ UNCHANGED << articles, selectedJournals, selectedPubTypes, pubTypesIsDefault, dateRange,
                    searchQuery, sortBy, isRefreshing, appMounted, fetches, nFetch, lastDone, normVars >>

\* generateClinicalSummary: every answer but a parsed JSON text throws.
SummaryThrows(resp) == resp.kind # "json"

\* A state setter of the card that issued request r: nothing once it is unmounted.
CardSet(r, loading, error) ==
    IF r.cardMounted THEN [cards EXCEPT ![r.id] = [loading |-> loading, error |-> error]] ELSE cards

\* The request resolves: onSummaryGenerated, then setLoading(false).
SummarizeSucceeds(r, resp) ==
    /\ BagIn(r, requests)
    /\ ~SummaryThrows(resp)
    /\ articles' = HandleSummaryGenerated(r.id, resp.summary)
    /\ Render(articles', selectedJournals, searchQuery, sortBy,
              CardSet(r, FALSE, IF r.cardMounted THEN cards[r.id].error ELSE NoError),
              requests (-) SetToBag({r}))
    /\ UNCHANGED << selectedJournals, selectedPubTypes, pubTypesIsDefault, dateRange, searchQuery,
                    sortBy, isRefreshing, appMounted, fetches, nFetch, lastDone, normVars >>

\* The request rejects: setError(message), then setLoading(false).
SummarizeFails(r, resp) ==
    /\ BagIn(r, requests)
    /\ SummaryThrows(resp)
    /\ cards' = CardSet(r, FALSE, FailedMessage)
    /\ requests' = requests (-) SetToBag({r})
    /\ UNCHANGED << articles, selectedJournals, selectedPubTypes, pubTypesIsDefault, dateRange,
                    searchQuery, sortBy, isRefreshing, appMounted, fetches, nFetch, lastDone,
                    normVars >>

\* ------------------------------------------------------------------- spec

Next ==
    \/ Mount
    \/ \E v \in PickedDateRanges : SetDateRange(v)
    \/ \E t \in ToggledPubTypes : TogglePubType(t)
    \/ RefreshClick
    \/ \E j \in ToggledJournals : ToggleJournal(j)
    \/ ToggleAllJournals
    \/ \E q \in SearchTexts : SetSearchQuery(q)
    \/ \E s \in SortOptions : SetSortBy(s)
    \/ ResetFilters
    \/ \E f \in fetches : \E resp \in SearchResponses : SearchResponds(f, resp)
    \/ \E f \in fetches : \E resp \in EFetchResponses : EFetchResponds(f, resp)
    \/ \E id \in DOMAIN cards : SummarizeClick(id)
    \/ \E r \in BagToSet(requests) : \E resp \in SummaryResponses : SummarizeSucceeds(r, resp)
    \/ \E r \in BagToSet(requests) : \E resp \in SummaryResponses : SummarizeFails(r, resp)

Spec == Init /\ [][Next]_vars

\* -------------------------------------------------- normalizer on its own

\* Nodes that differ in the sub-fields of PubDate only.
DateNodes ==
    { [TrialNode EXCEPT !.year = y, !.month = m, !.day = d] :
        y \in { Absent, <<"2","0","2","4">>, <<"2","0","2","5">> },
        m \in { Absent, <<"3">>, <<"1","2">>, <<"M","a","r">> },
        d \in { Absent, <<"7">>, <<"2","1">> } }

\* Nodes that differ in which sub-elements are present or empty.
FieldNodes ==
    { [ hasArticle |-> h, title |-> t, abstractTexts |-> ab, authors |-> au, journalTitle |-> j,
        year |-> <<"2","0","2","4">>, month |-> <<"3">>, day |-> <<"7">>,
        doi |-> doi, hasPmid |-> hp, pmid |-> IF hp THEN <<"1","0","1">> ELSE Absent,
        pubTypes |-> << <<"R","e","v","i","e","w">> >> ] :
        h \in BOOLEAN,
        t \in { Absent, <<"R","x">> },
        ab \in { << >>,
                 << [label |-> Absent, text |-> <<" ">>] >>,
                 << [label |-> <<"A","i","m">>, text |-> <<"R","e","s","t">>] >>,
                 << [label |-> <<"A","i","m">>, text |-> <<"R","e","s","t">>], [label |-> Absent, text |-> <<"L","D","L">>] >> },
        au \in { << >>,
                 << [last |-> Absent, initials |-> Absent] >>,
                 << [last |-> <<"R","o","e">>, initials |-> <<"J">>], [last |-> <<"P","o","e">>, initials |-> Absent],
                    [last |-> <<"D","o","e">>, initials |-> <<"K">>], [last |-> <<"L","e","e">>, initials |-> <<"M">>] >> },
        j \in { Absent, <<"J","A","M","A">>, <<"G","u","t">>, <<"L","a","n","c","e","t"," ","O","n","c","o","l","o","g","y">> },
        doi \in { Absent, <<"1","/","a">> },
        hp \in BOOLEAN }

\* Raw journal titles: one for each pattern, titles that match two patterns, titles
\* that match none, and near misses of the two exact tests.
JournalTitles ==
    { <<"N","e","w"," ","E","n","g","l","a","n","d"," ","J","o","u","r","n","a","l">>,
      <<"J","A","M","A">>,
      <<"J","A","M","A"," ","O","n","c","o","l","o","g","y">>,
      <<"L","a","n","c","e","t">>,
      <<"B","M","J">>,
      <<"B","M","J"," ","O","p","e","n">>,
      <<"N","a","t","u","r","e">>,
      <<"A","n","n","a","l","s">>,
      <<"O","n","c","o","l","o","g","y">>,
      <<"L","a","n","c","e","t"," ","O","n","c","o","l","o","g","y">>,
      <<"N","a","t","u","r","e"," ","O","n","c","o","l","o","g","y">>,
      <<"A","n","n","a","l","s"," ","o","f"," ","O","n","c","o","l","o","g","y">>,
      <<"N","e","w"," ","E","n","g","l","a","n","d"," ","L","a","n","c","e","t">>,
      <<"G","u","t">>,
      <<"l","a","n","c","e","t">> }

\* Nodes that differ in the journal title only.
JournalNodes == { [TrialNode EXCEPT !.journalTitle = j] : j \in JournalTitles }

RECURSIVE SeqsUpTo(_, _)
SeqsUpTo(S, n) == IF n = 0 THEN { << >> }
                  ELSE LET shorter == SeqsUpTo(S, n - 1)
                       IN  shorter \cup { Append(s, x) : s \in shorter, x \in S }

NormDocuments ==
    { << n >> : n \in FieldNodes \cup JournalNodes } \cup (SeqsUpTo(DateNodes, MaxDocLen) \ { << >> })

InitNorm ==
    /\ AppInit
    /\ rawIn \in NormDocuments
    /\ normOut = << >>
    /\ termArgs = NoArgs
    /\ termOut = NoTerm

\* The parsed document goes through the loop of fetchLatestArticles.
NormalizeStep ==
    /\ normOut = << >>
    /\ normOut' = NormalizeDocument(rawIn, 1)
    /\ UNCHANGED << articles, selectedJournals, selectedPubTypes, pubTypesIsDefault, dateRange,
                    searchQuery, sortBy, isRefreshing, appMounted, fetches, nFetch, lastDone, cards,
                    requests, rawIn, termArgs, termOut >>

NextNorm == NormalizeStep

SpecNorm == InitNorm /\ [][NextNorm]_vars

\* ------------------------------------------- filter and sort on their own

\* Records that differ in journal, date, title and abstract: two pairs with equal
\* dates, a journal outside the tracked set, and the text "flu" in a title or in an
\* abstract only.
ViewNodes ==
    { TrialNode,
      ReviewNode,
      [TrialNode EXCEPT !.title = <<"f","l","u"," ","A">>],
      [ReviewNode EXCEPT !.title = <<"R","x">>, !.abstractTexts = << [label |-> Absent, text |-> <<"a"," ","f","l","u">>] >>],
      [TrialNode EXCEPT !.title = <<"F","l","u"," ","B">>, !.journalTitle = <<"G","u","t">>, !.year = <<"2","0","2","3">>, !.month = <<"1","2">>, !.day = <<"3","1">>] }

\* Article sets a fetch cycle can hand back.
ViewArticleSets == { NormalizeDocument(d, 1) : d \in SeqsUpTo(ViewNodes, MaxArticles) }

\* The App after its first fetch cycle has completed with one of the article sets.
InitView ==
    /\ articles \in ViewArticleSets
    /\ selectedJournals = SeqToSet(ALL_JOURNALS)
    /\ selectedPubTypes = ALL_PUBLICATION_TYPES
    /\ pubTypesIsDefault = TRUE
    /\ dateRange = 14
    /\ searchQuery = << >>
    /\ sortBy = "newest"
    /\ isRefreshing = FALSE
    /\ appMounted = TRUE
    /\ fetches = {}
    /\ nFetch = 1
    /\ lastDone = [seq |-> 1, days |-> dateRange, pubTypes |-> selectedPubTypes,
                   calls |-> << "esearch", "efetch" >>, remoteFailed |-> FALSE,
                   threw |-> FALSE, result |-> articles]
    /\ cards = [id \in DisplayedIds(articles, selectedJournals, searchQuery, sortBy) |-> FreshCard]
    /\ requests = EmptyBag
    /\ rawIn = << >>
    /\ normOut = << >>
    /\ termArgs = NoArgs
    /\ termOut = NoTerm

NextView ==
    \/ \E j \in ToggledJournals : ToggleJournal(j)
    \/ ToggleAllJournals
    \/ \E q \in SearchTexts : SetSearchQuery(q)
    \/ \E s \in SortOptions : SetSortBy(s)

SpecView == InitView /\ [][NextView]_vars

\* ------------------------------------------- query construction on its own

\* Names a caller can pass: the four supported types and one that is no key of
\* PUB_TYPE_QUERY_MAP.
PubTypeNames == SeqToSet(ALL_PUBLICATION_TYPES) \cup {"Case Report"}

PubTypeLists == SeqsUpTo(PubTypeNames, MaxTypes)

InitTerm ==
    /\ AppInit
    /\ rawIn = << >>
    /\ normOut = << >>
    /\ termArgs \in [days : DATE_RANGES, pubTypes : PubTypeLists]
    /\ termOut = NoTerm

\* fetchLatestArticles(days, pubTypes) builds its search term.
BuildTermStep ==
    /\ termOut = NoTerm
    /\ termOut' = BuildTerm(termArgs.days, termArgs.pubTypes)
    /\ UNCHANGED << articles, selectedJournals, selectedPubTypes, pubTypesIsDefault, dateRange,
                    searchQuery, sortBy, isRefreshing, appMounted, fetches, nFetch, lastDone, cards,
                    requests, rawIn, normOut, termArgs >>

NextTerm == BuildTermStep

SpecTerm == InitTerm /\ [][NextTerm]_vars

\* ----------------------------------------------------------------- claims

HasSummary(article) == article.cachedSummary # NoSummary

ArticleIds(arts) == {arts[i].id : i \in 1..Len(arts)}

WithoutSummaries(arts) == [i \in 1..Len(arts) |-> [arts[i] EXCEPT !.cachedSummary = NoSummary]]

\* Fetch cycle f is in flight now and completes in this step.
Completes(f) == f \in fetches /\ \A g \in fetches' : g.seq # f.seq

\* C1: once an article of the current set has a cached summary, no later step
\* changes or clears that summary while the article stays in the set.
C1_SummaryWrittenOnce ==
    [][ \A i \in 1..Len(articles) : \A j \in 1..Len(articles') :
            (articles[i].id = articles'[j].id /\ HasSummary(articles[i]))
                => articles'[j].cachedSummary = articles[i].cachedSummary ]_vars

\* C2: for an article with a cached summary the action area is not rendered, a call
\* of handleSummarize would return early, and the summarize action is not enabled;
\* and no step starts a request for an article that has a cached summary.
C2_CachedBlocksAction ==
    \A id \in DOMAIN cards :
        HasSummary(ArticleById(id)) =>
            /\ ~ActionAreaRendered(ArticleById(id))
            /\ ReturnsEarly(ArticleById(id))
            /\ ~ENABLED SummarizeClick(id)

C2_NoRequestStarts ==
    \A r \in DOMAIN requests' :
        (r.cardMounted /\ CopiesIn(r, requests') > CopiesIn(r, requests))
            => \E i \in 1..Len(articles) : articles[i].id = r.id /\ ~HasSummary(articles[i])

\* C2: in every state a cached summary blocks the summarize action, and no step
\* starts a request for an article whose summary is cached.
C2_NoRequestWhenCached == [] C2_CachedBlocksAction /\ [][C2_NoRequestStarts]_vars

C2_Witness == \E id \in DOMAIN cards : HasSummary(ArticleById(id))

\* C3: when a fetch cycle completes, the article set is exactly the list that fetch
\* returned: no identifier of the previous set is left and no article carries a
\* cached summary, and the set is empty when the returned list is empty.
C3_FetchReplacesSet ==
    [][ \A f \in fetches :
            Completes(f) =>
                /\ lastDone'.seq = f.seq
                /\ articles' = lastDone'.result
                /\ ArticleIds(articles') \cap ArticleIds(articles) = {}
                /\ \A i \in 1..Len(articles') : ~HasSummary(articles'[i])
                /\ (lastDone'.remoteFailed => articles' = << >>) ]_vars

\* A cycle has replaced a set one of whose articles had a request started: the
\* request is still in flight, its article is gone and the set is now empty.
C3_Witness ==
    /\ lastDone.seq = 2
    /\ articles = << >>
    /\ \E r \in DOMAIN requests : r.id[1] = 1

\* C4: starting a fetch cancels none in flight, and the article set is the result of
\* the cycle that completed last, whether or not it was the one issued last.
C4_SetIsLastCompleted == lastDone.seq # 0 => WithoutSummaries(articles) = lastDone.result

C4_NoCancellation == nFetch' > nFetch => fetches \subseteq fetches'

\* C4: overlapping fetch cycles all run to completion and the one that completes last
\* determines the article set.
C4_LastCompletedWins == [] C4_SetIsLastCompleted /\ [][C4_NoCancellation]_vars

\* Two cycles overlapped, both have completed, and the one issued first completed
\* last with a non-empty list, which is the article set.
C4_Witness ==
    /\ nFetch = 2
    /\ fetches = {}
    /\ lastDone.seq = 1
    /\ articles # << >>

\* C5: a fetch cycle never throws to handleFetchLive, and the list it hands back is
\* empty whenever one of its remote calls failed.
C5_FetchNeverThrows ==
    /\ ~lastDone.threw
    /\ lastDone.remoteFailed => lastDone.result = << >>

\* The bulk retrieval of the cycle that completed last failed.
C5_Witness ==
    /\ lastDone.remoteFailed
    /\ lastDone.calls = << "esearch", "efetch" >>
    /\ articles = << >>

\* C6: the bulk retrieval is issued only after the identifier search, and only with
\* a non-empty identifier list; a search that succeeds with a missing or empty list
\* ends the cycle with an empty article list and no bulk retrieval.
C6_CallsInOrder ==
    /\ \A f \in fetches :
          /\ f.pc = "search" => f.calls = << "esearch" >> /\ f.ids = << >>
          /\ f.pc = "efetch" => f.calls = << "esearch", "efetch" >> /\ f.ids # << >>
    /\ lastDone.seq # 0 => lastDone.calls \in { << "esearch" >>, << "esearch", "efetch" >> }

C6_EmptySearchEnds ==
    \A f \in fetches : \A resp \in SearchResponses :
        (SearchResponds(f, resp) /\ ~RemoteFailed(resp) /\ resp.idlist = << >>)
            => /\ Completes(f)
               /\ lastDone'.calls = << "esearch" >>
               /\ lastDone'.result = << >>
               /\ articles' = << >>

\* C6: the two remote calls of a cycle are strictly ordered, and an empty identifier
\* list ends the cycle with an empty list and without a bulk retrieval.
C6_SearchBeforeRetrieval == [] C6_CallsInOrder /\ [][C6_EmptySearchEnds]_vars

\* A cycle has ended on an empty identifier list while another is at its bulk retrieval.
C6_Witness ==
    /\ lastDone.seq # 0
    /\ lastDone.calls = << "esearch" >>
    /\ ~lastDone.remoteFailed
    /\ \E f \in fetches : f.pc = "efetch"

\* C7: when a request for a displayed article fails, the article set is unchanged,
\* that article's card shows the error with loading cleared and offers the action
\* again, and no other card changes.
C7_FailureIsPerCard ==
    [][ \A r \in DOMAIN requests : \A resp \in SummaryResponses :
            (SummarizeFails(r, resp) /\ r.id \in DOMAIN cards)
                => /\ articles' = articles
                   /\ cards'[r.id] = [loading |-> FALSE, error |-> FailedMessage]
                   /\ \A id \in DOMAIN cards : id # r.id => cards'[id] = cards[id]
                   /\ ActionAreaRendered(ArticleById(r.id)) ]_vars

\* C8: a change of the journal selection, the query or the sort direction alone
\* starts no fetch and leaves the article set alone; a fetch starts only on mount,
\* on a change of the recency window or of the publication types, or on Refresh;
\* and every term sent carries the whole tracked-journal disjunction.
C8_TermHasAllJournals == \A f \in fetches : f.term.journalTerms = JOURNAL_QUERY_MAP

C8_ViewChangeIsLocal ==
    /\ ( /\ selectedJournals' # selectedJournals \/ searchQuery' # searchQuery \/ sortBy' # sortBy
         /\ dateRange' = dateRange
         /\ selectedPubTypes' = selectedPubTypes )
          => articles' = articles /\ fetches' = fetches /\ nFetch' = nFetch
    /\ nFetch' # nFetch
          => \/ ~appMounted
             \/ dateRange' # dateRange
             \/ selectedPubTypes' # selectedPubTypes
             \/ RefreshClick

\* C8: view-state changes never fetch and never change the article set, fetches start
\* only from the four triggers, and every term carries all tracked journals.
C8_ViewStateNeverFetches == [] C8_TermHasAllJournals /\ [][C8_ViewChangeIsLocal]_vars

\* A fetch started while a journal is deselected, a query is typed and the sort is
\* "oldest", with articles on display.
C8_Witness ==
    /\ selectedJournals # SeqToSet(ALL_JOURNALS)
    /\ searchQuery # << >>
    /\ sortBy = "oldest"
    /\ articles # << >>
    /\ \E f \in fetches : f.seq = 2 /\ f.pc = "search"

\* The date a PubDate element denotes, as year, month and day numbers: a missing
\* year is the current year, a missing month or day is the first.
RECURSIVE NumberOf(_)
NumberOf(s) == IF s = << >> THEN 0
               ELSE NumberOf(SubSeq(s, 1, Len(s) - 1)) * 10 + (IndexOf(s[Len(s)], DigitChars) - 1)

MonthNumber(m) == IF m = <<"M","a","r">> THEN 3 ELSE NumberOf(m)

SourceDate(node) ==
    << NumberOf(IF node.year # Absent THEN node.year ELSE CurrentYear),
       IF node.month # Absent THEN MonthNumber(node.month) ELSE 1,
       IF node.day # Absent THEN NumberOf(node.day) ELSE 1 >>

IsDigit(c) == IndexOf(c, DigitChars) > 0

IsCanonicalDate(s) ==
    /\ Len(s) = 10
    /\ s[5] = "-" /\ s[8] = "-"
    /\ \A i \in {1, 2, 3, 4, 6, 7, 9, 10} : IsDigit(s[i])

\* The node of rawIn an emitted article was made from.
SourceNode(article) == rawIn[article.id[2]]

\* C9: every emitted pubDate is a zero-padded YYYY-MM-DD string, and comparing two
\* emitted pubDates as strings orders them as the dates they were made from.
C9_PubDatesSortChronologically ==
    \A i \in 1..Len(normOut) :
        /\ IsCanonicalDate(normOut[i].pubDate)
        /\ \A j \in 1..Len(normOut) :
               LocaleCompare(normOut[i].pubDate, normOut[j].pubDate)
                   = CompareKeys(SourceDate(SourceNode(normOut[i])), SourceDate(SourceNode(normOut[j])))

NonBlank(s) == Trim(s) # << >>

\* C10: every emitted article has a non-blank title, journal, abstract, pubDate and
\* doiLink and at least one author.
C10_RequiredFieldsPopulated ==
    \A i \in 1..Len(normOut) :
        /\ NonBlank(normOut[i].title)
        /\ NonBlank(normOut[i].journal)
        /\ NonBlank(normOut[i].abstract)
        /\ NonBlank(normOut[i].pubDate)
        /\ NonBlank(normOut[i].doiLink)
        /\ Len(normOut[i].authors) >= 1

\* The abstract as the segments of the source give it: none, one or several.
LabelledSegment(el) ==
    IF el.label # Absent THEN ToUpperCase(el.label) \o <<":", " ">> \o el.text ELSE el.text

SegmentsAbstract(segments) ==
    IF Len(segments) = 0 THEN NoAbstract
    ELSE IF Len(segments) = 1 THEN segments[1].text
    ELSE Join([i \in 1..Len(segments) |-> LabelledSegment(segments[i])], <<"\n", "\n">>)

\* C11: the abstract of an emitted article is the sentinel for no segment, the text
\* of the segment alone for one segment, labelled or not, and for several segments
\* their texts, each after its upper-cased label if it has one, joined by a blank line.
C11_AbstractAssembly ==
    \A i \in 1..Len(normOut) :
        normOut[i].abstract = SegmentsAbstract(SourceNode(normOut[i]).abstractTexts)

\* The patterns of the journal reconciliation in the order they are tested.
JournalPatterns ==
    << [exact |-> FALSE, text |-> <<"N","e","w"," ","E","n","g","l","a","n","d">>, name |-> NEJM],
       [exact |-> TRUE, text |-> <<"J","A","M","A">>, name |-> JAMA],
       [exact |-> FALSE, text |-> <<"L","a","n","c","e","t">>, name |-> LANCET],
       [exact |-> TRUE, text |-> <<"B","M","J">>, name |-> BMJ],
       [exact |-> FALSE, text |-> <<"N","a","t","u","r","e">>, name |-> NATURE_MED],
       [exact |-> FALSE, text |-> <<"A","n","n","a","l","s">>, name |-> ANNALS],
       [exact |-> FALSE, text |-> <<"O","n","c","o","l","o","g","y">>, name |-> JCO] >>

PatternMatches(p, raw) == IF p.exact THEN raw = p.text ELSE Includes(raw, p.text)

MatchingPatterns(raw) == {k \in 1..Len(JournalPatterns) : PatternMatches(JournalPatterns[k], raw)}

\* C16: the journal of an emitted article is the canonical name of the first pattern,
\* in the fixed order, that its raw title matches, and the raw title itself when no
\* pattern matches.
C16_JournalFirstMatchWins ==
    \A i \in 1..Len(normOut) :
        LET raw == SourceNode(normOut[i]).journalTitle
            hits == MatchingPatterns(raw)
        IN  IF hits = {} THEN normOut[i].journal = raw
            ELSE \E k \in hits : /\ \A h \in hits : k <= h
                                 /\ normOut[i].journal = JournalPatterns[k].name

\* A title that matches the "Lancet" and the "Oncology" pattern came out as The Lancet.
C16_Witness ==
    \E i \in 1..Len(normOut) :
        /\ {3, 7} \subseteq MatchingPatterns(SourceNode(normOut[i]).journalTitle)
        /\ normOut[i].journal = LANCET

\* The query tokens of the recognized names of a list, in the order of the list.
RecognizedTokens(pubTypes) ==
    {PUB_TYPE_QUERY_MAP(pubTypes[i]) : i \in 1..Len(pubTypes)} \ {""}

\* C12: the publication-type clause of a built term is never empty; for an empty
\* list it holds the tokens of all four supported types, and otherwise the tokens
\* of the recognized names of the list and nothing else.
C12_PubTypeClauseNonEmpty ==
    termOut # NoTerm =>
        /\ termOut.typeQueries # << >>
        /\ \A i \in 1..Len(termOut.typeQueries) : termOut.typeQueries[i] # ""
        /\ SeqToSet(termOut.typeQueries) =
              IF termArgs.pubTypes = << >> THEN RecognizedTokens(ALL_PUBLICATION_TYPES)
              ELSE RecognizedTokens(termArgs.pubTypes)

\* The list on display.
Shown == ProcessedArticles(articles, selectedJournals, searchQuery, sortBy)

\* Two characters that differ at most in case.
SameLetter(a, b) == a = b \/ UpperChar(a) = UpperChar(b)

\* q occurs in text when case is ignored; the empty q occurs in every text.
OccursIgnoringCase(q, text) ==
    \E k \in 0..(Len(text) - Len(q)) : \A i \in 1..Len(q) : SameLetter(text[k + i], q[i])

PassesTests(article) ==
    /\ article.journal \in selectedJournals
    /\ \/ OccursIgnoringCase(searchQuery, article.title)
       \/ OccursIgnoringCase(searchQuery, article.abstract)

C13_ExactlyThePassing ==
    /\ SeqToSet(Shown) = {articles[i] : i \in {k \in 1..Len(articles) : PassesTests(articles[k])}}
    /\ Len(Shown) = Cardinality({k \in 1..Len(articles) : PassesTests(articles[k])})
    /\ DOMAIN cards = {Shown[i].id : i \in 1..Len(Shown)}

\* C13: the list on display holds exactly the articles of the set whose journal is
\* selected and whose title or abstract contains the query, case ignored, each once;
\* and a change of the view state leaves the article set as it was.
C13_FilterIsExact == [] C13_ExactlyThePassing /\ [][articles' = articles]_vars

\* With a query typed and a journal deselected: one article is shown for its abstract
\* alone, one is dropped by the journal test and one by the free-text test.
C13_Witness ==
    /\ searchQuery # << >>
    /\ \E i \in 1..Len(Shown) : ~OccursIgnoringCase(searchQuery, Shown[i].title)
    /\ \E i \in 1..Len(articles) :
          articles[i].journal \notin selectedJournals /\ OccursIgnoringCase(searchQuery, articles[i].title)
    /\ \E i \in 1..Len(articles) :
          /\ articles[i].journal \in selectedJournals
          /\ ~OccursIgnoringCase(searchQuery, articles[i].title)
          /\ ~OccursIgnoringCase(searchQuery, articles[i].abstract)

\* Lexicographic comparison of two strings by the code units of their characters.
CodeUnitOrder == <<" ", "-", ".", "/">> \o DigitChars \o <<":">> \o UpperChars \o LowerChars

Lexicographic(a, b) ==
    CompareKeys([i \in 1..Len(a) |-> IndexOf(a[i], CodeUnitOrder)],
                [i \in 1..Len(b) |-> IndexOf(b[i], CodeUnitOrder)])

\* The position in the article set of the i-th article on display.
PositionInSet(i) == CHOOSE k \in 1..Len(articles) : articles[k] = Shown[i]

\* C14: the list on display is a permutation of the articles that pass the filter;
\* adjacent pubDates never increase under "newest" and never decrease under "oldest",
\* compared lexicographically; articles with equal pubDate keep the order they have
\* in the article set.
C14_SortedAndStable ==
    /\ SeqToSet(Shown) = {articles[k] : k \in {k \in 1..Len(articles) : MatchesFilter(articles[k], selectedJournals, searchQuery)}}
    /\ \A i, j \in 1..Len(Shown) : i # j => Shown[i] # Shown[j]
    /\ \A i \in 1..(Len(Shown) - 1) :
          /\ sortBy = "newest" => Lexicographic(Shown[i].pubDate, Shown[i + 1].pubDate) >= 0
          /\ sortBy = "oldest" => Lexicographic(Shown[i].pubDate, Shown[i + 1].pubDate) <= 0
          /\ Shown[i].pubDate = Shown[i + 1].pubDate => PositionInSet(i) < PositionInSet(i + 1)

\* Three articles on display, oldest first, two of them with the same pubDate and
\* the third, first in the article set, with a later one.
C14_Witness ==
    /\ sortBy = "oldest"
    /\ Len(Shown) = 3
    /\ Shown[1].pubDate = Shown[2].pubDate
    /\ Shown[3] = articles[1]
    /\ Shown[3].pubDate # Shown[1].pubDate

C15_OnlyTheSummarySlot ==
    \A r \in DOMAIN requests : \A resp \in SummaryResponses :
        SummarizeSucceeds(r, resp) =>
            /\ Len(articles') = Len(articles)
            /\ \A i \in 1..Len(articles) :
                  articles'[i] = IF articles[i].id = r.id
                                 THEN [articles[i] EXCEPT !.cachedSummary = resp.summary]
                                 ELSE articles[i]

C15_TwoWriters ==
    articles' # articles =>
        \/ \E f \in fetches : Completes(f)
        \/ \E r \in DOMAIN requests : \E resp \in SummaryResponses : SummarizeSucceeds(r, resp)

\* C15: a successful summarization for identity X changes the cachedSummary of the
\* article with id X and nothing else of the article set, and only a fetch completion
\* or such a summary update ever changes the article set.
C15_SummaryUpdateFrame == [][C15_OnlyTheSummarySlot /\ C15_TwoWriters]_vars

\* A set of two articles of which one has received a summary and the other has none.
C15_Witness ==
    /\ Len(articles) = 2
    /\ \E i, j \in 1..Len(articles) : HasSummary(articles[i]) /\ ~HasSummary(articles[j])

\* C17: the refreshing flag is set in every state with a fetch cycle in flight and
\* clear in every state with none.
C17_FlagTracksInFlight ==
    /\ fetches # {} => isRefreshing
    /\ fetches = {} => ~isRefreshing

\* C18: in every state with no fetch cycle in flight, the article set is what a cycle
\* issued with the current recency window and publication types handed back.
C18_SetMatchesCurrentFilters ==
    (fetches = {} /\ lastDone.seq # 0) =>
        /\ WithoutSummaries(articles) = lastDone.result
        /\ lastDone.days = dateRange
        /\ lastDone.pubTypes = selectedPubTypes

\* A request started for an article of a set that a later fetch cycle has replaced.
Stale(r) == r.id[1] # lastDone.seq

C19_StaleCompletionIsInert ==
    \A r \in DOMAIN requests : \A resp \in SummaryResponses :
        (SummarizeSucceeds(r, resp) /\ Stale(r)) =>
            /\ articles' = articles
            /\ \A i \in 1..Len(articles) : articles[i].id # r.id

C19_SummaryFromOwnAbstract ==
    \A i \in 1..Len(articles) :
        (Len(articles') = Len(articles) /\ articles'[i].id = articles[i].id
            /\ articles'[i].cachedSummary # articles[i].cachedSummary)
          => \E r \in DOMAIN requests : r.id = articles[i].id /\ r.abstract = articles[i].abstract

\* C19: a request of a replaced set that resolves changes nothing, since no article
\* of the current set has its id; an article only ever receives a summary from a
\* request that carries its own id and its own abstract.
C19_StaleSummaryDropped == [][C19_StaleCompletionIsInert /\ C19_SummaryFromOwnAbstract]_vars

\* A request of the first set is still in flight and can resolve, while the set on
\* display is the non-empty one the second fetch cycle handed back.
C19_Witness ==
    /\ lastDone.seq = 2
    /\ articles # << >>
    /\ \E r \in DOMAIN requests :
          r.id[1] = 1 /\ ENABLED SummarizeSucceeds(r, [kind |-> "json", summary |-> "s1"])

====
